---- MODULE Spec2Model ----
(***************************************************************************)
(* Model of the ConfigQuery question-answering pipeline: the Conversation  *)
(* class (conversation.py), the confidence-tiered routing of get_answer    *)
(* and the conversation store conversation_instances (qa_tool.py).         *)
(*                                                                         *)
(* Texts are TLA+ strings.  Similarity scores are integers in hundredths   *)
(* (0.2 is 20, 0.3 is 30, 0.5 is 50).                                       *)
(***************************************************************************)
EXTENDS Integers, Sequences, FiniteSets, TLC

(* ------------------------------ bounds -------------------------------- *)

\* largest configured value of MAX_CONVERSATION_HISTORY that is explored
MaxHistory == 2
\* largest number of documents the index returns for one query (<= top_k)
MaxDocs == 2
\* number of get_answer calls explored in one behaviour
MaxCalls == 2
\* number of direct appends explored on a stand-alone Conversation
MaxAppends == 4
\* largest number of words in a query handed to the expansion
MaxWords == 2
\* number of times the expansion is applied to its own result
MaxPasses == 2
\* largest number of messages in a history handed to a prompt function
MaxSupplied == 3
\* largest length of ChatBridge's list of pinned conversations
MaxPins == 2
\* number of messages sent through ChatBridge.sendMessage
MaxSends == 1
\* number of message dicts created while a caller keeps a returned list
MaxDicts == 4

(* --------------------------- input alphabets --------------------------- *)

\* the threads that call get_answer: the GUI slots all run on the main thread
Threads == {"main"}
ConvIds == {"default", "chat1"}

Queries ==
    { "What's the weather?",
      "How are you",
      "How do I reset a password?",
      "What is the capital of France?" }

\* what the user types into the GUI and the titles it gives to chats
BridgeMessages == {"How do I reset a password?", " "}
BridgeTitles == {"VPN help"}

\* texts the Completion Client can answer with
Responses == {"Open Settings and choose Reset."}

\* texts of the documents stored in the Vector Index; a query result lists
\* the first n of them
DocTexts ==
    << "Password reset guide", "VPN setup guide", "Printer setup guide",
       "Mailbox permissions guide", "Wifi onboarding guide" >>

\* values the index returns as similarity scores (hundredths)
Scores == {10, 20, 30, 50}

\* what the embedding model or the index can raise
SearchErrors == {"index unavailable"}

(* ------------------------ text helpers (python str) -------------------- *)

UpperCase == "ABCDEFGHIJKLMNOPQRSTUVWXYZ"
LowerCase == "abcdefghijklmnopqrstuvwxyz"

\* str.lower() of a one-character string
LowerChar(c) ==
    IF \E i \in 1..Len(UpperCase) : SubSeq(UpperCase, i, i) = c
    THEN LET i == CHOOSE i \in 1..Len(UpperCase) : SubSeq(UpperCase, i, i) = c
         IN  SubSeq(LowerCase, i, i)
    ELSE c

RECURSIVE lower(_)
\* str.lower(): the lower-cased halves of s, joined
lower(s) ==
    IF Len(s) = 0
    THEN ""
    ELSE IF Len(s) = 1
    THEN LowerChar(s)
    ELSE lower(SubSeq(s, 1, Len(s) \div 2)) \o lower(SubSeq(s, Len(s) \div 2 + 1, Len(s)))

\* python "needle in hay" on strings
Contains(hay, needle) ==
    \E i \in 0..(Len(hay) - Len(needle)) : SubSeq(hay, i + 1, i + Len(needle)) = needle

(* ------------------------------ config.py ------------------------------ *)

\* values the environment variable MAX_CONVERSATION_HISTORY takes here
HistoryLimits == 1..MaxHistory

(* --------------------------- conversation.py --------------------------- *)

None == 0

Message(role, content) == [role |-> role, content |-> content]

\* list.append as both add_*_message methods use it.  The field appended is a
\* history variable: every message appended since construction or the last
\* clear, which no method reads.
messages_append(conv, msg) ==
    [conv EXCEPT !.messages = Append(conv.messages, msg),
                 !.appended = Append(conv.appended, msg)]

\* Conversation.__init__ (max_history or config.MAX_CONVERSATION_HISTORY)
Conversation(max_history, configured) ==
    [ max_history |-> IF max_history = None THEN configured ELSE max_history,
      messages    |-> << >>,
      appended    |-> << >> ]

\* _trim_history dropping whole user+assistant pairs: an odd excess is
\* rounded up
trim_history_drops_pairs(conv) ==
    IF Len(conv.messages) > conv.max_history
    THEN LET excess == Len(conv.messages) - conv.max_history
             dropped == excess + (excess % 2)
         IN  [conv EXCEPT !.messages = SubSeq(conv.messages, dropped + 1, Len(conv.messages))]
    ELSE conv

\* _trim_history with the excess computed one too small
trim_history_keeps_one_more(conv) ==
    IF Len(conv.messages) > conv.max_history
    THEN LET excess == Len(conv.messages) - conv.max_history - 1
         IN  [conv EXCEPT !.messages = SubSeq(conv.messages, excess + 1, Len(conv.messages))]
    ELSE conv

\* _trim_history slicing from the wrong end (messages[:max_history])
trim_history_keeps_oldest(conv) ==
    IF Len(conv.messages) > conv.max_history
    THEN [conv EXCEPT !.messages = SubSeq(conv.messages, 1, conv.max_history)]
    ELSE conv

\* Conversation._trim_history
trim_history(conv) ==
    IF Len(conv.messages) > conv.max_history
    THEN LET excess == Len(conv.messages) - conv.max_history
         IN  [conv EXCEPT !.messages = SubSeq(conv.messages, excess + 1, Len(conv.messages))]
    ELSE conv

\* Conversation.add_user_message
add_user_message(conv, message) ==
    trim_history(messages_append(conv, Message("user", message)))

\* Conversation.add_assistant_message
add_assistant_message(conv, message) ==
    trim_history(messages_append(conv, Message("assistant", message)))

\* Conversation.get_history
get_history(conv) == conv.messages

\* a clear that keeps the latest message
clear_keeps_latest(conv) ==
    [conv EXCEPT !.messages = IF conv.messages = << >>
                              THEN << >>
                              ELSE <<conv.messages[Len(conv.messages)]>>,
                 !.appended = << >>]

\* Conversation.clear
clear(conv) == [conv EXCEPT !.messages = << >>, !.appended = << >>]

(* ------------------------------ qa_tool.py ----------------------------- *)

IT_KEYWORDS ==
    { "password", "reset", "account", "login", "email", "server", "network",
      "computer", "laptop", "desktop", "vpn", "wifi", "software", "hardware",
      "install", "update", "domain", "active directory", "admin",
      "administrator", "config", "configuration", "setup", "system", "drive",
      "database", "access", "permission", "user", "printer", "device",
      "authentication", "security", "microsoft", "ms", "windows", "office",
      "azure", "sharepoint", "onedrive", "app", "application", "program",
      "browser", "website", "portal", "cloud", "file", "folder", "document",
      "data", "backup", "restore", "recover" }

\* the keyword test with the operands of "in" exchanged
is_it_related_exact(query) ==
    LET query_lower == lower(query)
    IN  \E keyword \in IT_KEYWORDS : Contains(keyword, query_lower)

\* is_it_related
is_it_related(query) ==
    LET query_lower == lower(query)
    IN  \E keyword \in IT_KEYWORDS : Contains(query_lower, keyword)

WEATHER_WORDS == {"weather", "temperature", "forecast", "rain", "snow"}
GREETING_PHRASES == {"how are you", "how're you", "how you doing"}

WEATHER_RESPONSE == "I don't have specific information about this in my knowledge base, but I can provide a general answer: I don't have access to current weather data. You would need to check a weather service or app for current conditions."
GREETING_RESPONSE == "I'm doing well, thank you for asking! How can I help you today?"
ERROR_RESPONSE == "Sorry, I encountered an error while processing your request. Please try again."
NO_RESULTS_DOC == "No relevant configs found."

\* the canned checks without query.lower()
canned_response_case_sensitive(query) ==
    IF \E word \in WEATHER_WORDS : Contains(query, word) THEN WEATHER_RESPONSE
    ELSE IF \E phrase \in GREETING_PHRASES : Contains(query, phrase) THEN GREETING_RESPONSE
    ELSE ""

\* the two canned checks of get_answer; "" when neither pattern matches
canned_response(query) ==
    IF \E word \in WEATHER_WORDS : Contains(lower(query), word) THEN WEATHER_RESPONSE
    ELSE IF \E phrase \in GREETING_PHRASES : Contains(lower(query), phrase) THEN GREETING_RESPONSE
    ELSE ""

\* is_it_related and the canned answer of every text that is asked
asked_is_it_related == [query \in Queries \cup BridgeMessages |-> is_it_related(query)]
asked_canned_response == [query \in Queries \cup BridgeMessages |-> canned_response(query)]

\* search_configs(query, top_k=5)
top_k == 5

\* what collection.query can return: parallel lists of at most top_k entries
IndexResults ==
    UNION { [docs : {SubSeq(DocTexts, 1, n)}, distances : [1..n -> Scores]] :
            n \in 0..(IF MaxDocs < top_k THEN MaxDocs ELSE top_k) }

\* the return statement of search_configs for an index result
search_configs(results) ==
    IF Len(results.docs) > 0
    THEN [relevant_docs |-> results.docs, similarity_scores |-> results.distances,
          has_results |-> TRUE]
    ELSE [relevant_docs |-> <<NO_RESULTS_DOC>>, similarity_scores |-> <<0>>,
          has_results |-> FALSE]

minimum_threshold == 20
high_threshold == 50
medium_threshold == 30

\* python max() of a non-empty list
max(scores) == CHOOSE m \in {scores[i] : i \in 1..Len(scores)} :
                   \A i \in 1..Len(scores) : scores[i] <= m

\* the grouping with > in place of >=
confidence_level_strict(score) ==
    IF score > high_threshold THEN "high"
    ELSE IF score > medium_threshold THEN "medium"
    ELSE "low"

\* the if / elif / else of the grouping loop
confidence_level(score) ==
    IF score >= high_threshold THEN "high"
    ELSE IF score >= medium_threshold THEN "medium"
    ELSE "low"

\* the grouping loop inserting at the front instead of appending
confidence_docs_reversed(relevant_docs, similarity_scores, level) ==
    LET n   == IF Len(relevant_docs) < Len(similarity_scores)
               THEN Len(relevant_docs) ELSE Len(similarity_scores)
        idx == SelectSeq([i \in 1..n |-> i],
                         LAMBDA i : confidence_level(similarity_scores[i]) = level)
    IN  [k \in 1..Len(idx) |-> relevant_docs[idx[Len(idx) + 1 - k]]]

\* the grouping loop over zip(relevant_docs, similarity_scores): the list
\* the loop builds for one confidence level
confidence_docs(relevant_docs, similarity_scores, level) ==
    LET n   == IF Len(relevant_docs) < Len(similarity_scores)
               THEN Len(relevant_docs) ELSE Len(similarity_scores)
        idx == SelectSeq([i \in 1..n |-> i],
                         LAMBDA i : confidence_level(similarity_scores[i]) = level)
    IN  [k \in 1..Len(idx) |-> relevant_docs[idx[k]]]

\* a call of one of the prompt_templates.create_*_prompt functions: the
\* function and its arguments (documents is empty for create_fallback_prompt,
\* which has no such parameter; is_it_related is FALSE where the function has
\* no such parameter)
PromptCall(fn, query, documents, conversation_history, it_related) ==
    [ fn |-> fn, query |-> query, documents |-> documents,
      conversation_history |-> conversation_history, is_it_related |-> it_related ]

NoPrompt == PromptCall("none", "", << >>, << >>, FALSE)

\* the test without the minimum threshold
has_relevant_ignores_threshold(found) ==
    found.has_results

\* the condition of step 3: has_results and max(similarity_scores) >= minimum_threshold
has_relevant(found) ==
    found.has_results /\ max(found.similarity_scores) >= minimum_threshold

\* step 3 with the low-confidence call leaving is_it_related at its default
choose_prompt_default_flag(query, found, history) ==
    IF has_relevant(found)
    THEN LET high_confidence_docs ==
                 confidence_docs(found.relevant_docs, found.similarity_scores, "high")
             medium_confidence_docs ==
                 confidence_docs(found.relevant_docs, found.similarity_scores, "medium")
             low_confidence_docs ==
                 confidence_docs(found.relevant_docs, found.similarity_scores, "low")
         IN  IF Len(high_confidence_docs) > 0
             THEN PromptCall("create_high_confidence_prompt", query,
                             high_confidence_docs, history, FALSE)
             ELSE IF Len(medium_confidence_docs) > 0
             THEN PromptCall("create_medium_confidence_prompt", query,
                             medium_confidence_docs \o low_confidence_docs, history, FALSE)
             ELSE PromptCall("create_low_confidence_prompt", query,
                             low_confidence_docs, history, TRUE)
    ELSE PromptCall("create_fallback_prompt", query, << >>, history, asked_is_it_related[query])

\* step 3 of get_answer: the prompt chosen for a search result
choose_prompt(query, found, history) ==
    IF has_relevant(found)
    THEN LET high_confidence_docs ==
                 confidence_docs(found.relevant_docs, found.similarity_scores, "high")
             medium_confidence_docs ==
                 confidence_docs(found.relevant_docs, found.similarity_scores, "medium")
             low_confidence_docs ==
                 confidence_docs(found.relevant_docs, found.similarity_scores, "low")
         IN  IF Len(high_confidence_docs) > 0
             THEN PromptCall("create_high_confidence_prompt", query,
                             high_confidence_docs, history, FALSE)
             ELSE IF Len(medium_confidence_docs) > 0
             THEN PromptCall("create_medium_confidence_prompt", query,
                             medium_confidence_docs \o low_confidence_docs, history, FALSE)
             ELSE PromptCall("create_low_confidence_prompt", query,
                             low_confidence_docs, history, asked_is_it_related[query])
    ELSE PromptCall("create_fallback_prompt", query, << >>, history, asked_is_it_related[query])

\* the except clause recording its message in the history
handle_exception_records_error(conv, e) ==
    [conv |-> add_assistant_message(conv, ERROR_RESPONSE), result |-> ERROR_RESPONSE]

\* the except clause handing the exception text to the caller
handle_exception_typed(conv, e) ==
    [conv |-> conv, result |-> e]

\* the except clause of get_answer: what it does to the conversation and
\* what get_answer returns
handle_exception(conv, e) ==
    [conv |-> conv, result |-> ERROR_RESPONSE]

(* ------------------------------ llm_api.py ----------------------------- *)

\* what client.chat.completions.create can raise: three exception classes of
\* the openai package and one that is not of that package
ClientErrors == {"APIConnectionError", "RateLimitError", "BadRequestError", "IndexError"}

\* the classes each of them is an instance of, as the openai package that
\* provides the OpenAI client class declares them
Bases ==
    [error \in ClientErrors |->
        IF error = "APIConnectionError"
        THEN {"APIConnectionError", "APIError", "OpenAIError", "Exception"}
        ELSE IF error = "RateLimitError"
        THEN {"RateLimitError", "APIStatusError", "APIError", "OpenAIError", "Exception"}
        ELSE IF error = "BadRequestError"
        THEN {"BadRequestError", "APIStatusError", "APIError", "OpenAIError", "Exception"}
        ELSE {"IndexError", "LookupError", "Exception"}]

\* str(e)
str ==
    [error \in ClientErrors |->
        IF error = "APIConnectionError" THEN "Connection error."
        ELSE IF error = "RateLimitError" THEN "Error code: 429"
        ELSE IF error = "BadRequestError" THEN "Error code: 400"
        ELSE "list index out of range"]

\* the except clauses of create_chat_completion, in the order written
EXCEPT_CLAUSES == <<"APIError", "APIConnectionError", "RateLimitError", "Exception">>

\* the clause that handles an exception: the first one naming a class the
\* exception is an instance of
handler(error) ==
    EXCEPT_CLAUSES[CHOOSE i \in DOMAIN EXCEPT_CLAUSES :
                       /\ EXCEPT_CLAUSES[i] \in Bases[error]
                       /\ \A j \in 1..(i - 1) : EXCEPT_CLAUSES[j] \notin Bases[error]]

CONNECTION_MESSAGE == "Unable to connect to the AI service. Please check your internet connection."
OVERLOADED_MESSAGE == "The AI service is currently overloaded. Please try again later."

\* the text of the Exception create_chat_completion raises when the client
\* raises error
create_chat_completion_raises(error) ==
    IF handler(error) = "APIError"
    THEN "Error communicating with the AI service: " \o str[error]
    ELSE IF handler(error) = "APIConnectionError"
    THEN CONNECTION_MESSAGE
    ELSE IF handler(error) = "RateLimitError"
    THEN OVERLOADED_MESSAGE
    ELSE "An unexpected error occurred: " \o str[error]

\* a create_chat_completion that sends the request again after a rate-limit
\* error
completion_calls_retrying(error) ==
    <<"create_chat_completion", "client.chat.completions.create">>
        \o (IF "RateLimitError" \in Bases[error]
            THEN <<"time.sleep", "client.chat.completions.create">>
            ELSE << >>)

\* the calls made by a create_chat_completion call in which the client
\* raises error: the call itself, the one request, and the sleep of the
\* rate-limit clause
completion_calls(error) ==
    <<"create_chat_completion", "client.chat.completions.create">>
        \o (IF handler(error) = "RateLimitError" THEN <<"time.sleep">> ELSE << >>)

\* what the completion call can raise into get_answer
CompletionErrors == {create_chat_completion_raises(error) : error \in ClientErrors}

(* ---------------- query expansion (qa_tool.py, 26-94) ----------------- *)

SYNONYM_MAPPING ==
    "reset" :> <<"change", "update", "modify", "alter", "edit", "fix">> @@
    "change" :> <<"reset", "update", "modify", "alter", "edit", "revise">> @@
    "add" :> <<"create", "generate", "make", "setup", "configure", "establish">> @@
    "remove" :> <<"delete", "disable", "revoke", "terminate", "eliminate">> @@
    "install" :> <<"setup", "deploy", "implement", "add", "configure">> @@
    "password" :> <<"credentials", "login", "authentication", "passcode", "pwd">> @@
    "account" :> <<"user", "profile", "login", "id", "identity">> @@
    "config" :> <<"configuration", "setting", "option", "parameter", "preference">> @@
    "settings" :> <<"options", "preferences", "configurations", "parameters", "setup">> @@
    "ms" :> <<"microsoft", "office365", "azure", "windows", "o365">> @@
    "microsoft" :> <<"ms", "office365", "windows", "o365", "msft">> @@
    "login" :> <<"sign in", "log in", "access", "authenticate", "credentials">> @@
    "vpn" :> <<"remote access", "remote connection", "virtual private network">> @@
    "email" :> <<"mail", "outlook", "message", "inbox">> @@
    "printer" :> <<"printing", "print", "scanner", "copier">> @@
    "network" :> <<"internet", "connection", "wifi", "ethernet", "lan">> @@
    "file" :> <<"document", "folder", "directory", "data">> @@
    "permission" :> <<"access", "right", "privilege", "authorization">>

\* the characters str.split() separates at
Whitespace == {" ", "\t", "\n"}

\* the characters the pattern \w matches
WordChars == "abcdefghijklmnopqrstuvwxyzABCDEFGHIJKLMNOPQRSTUVWXYZ0123456789_"

IsWordChar(c) == \E i \in 1..Len(WordChars) : SubSeq(WordChars, i, i) = c

\* position i of s holds a character that is not whitespace
InToken(s, i) == i \in 1..Len(s) /\ SubSeq(s, i, i) \notin Whitespace

\* str.split(): the maximal runs of non-whitespace characters of s, in order
split(s) ==
    LET starts == {i \in 1..Len(s) : InToken(s, i) /\ ~InToken(s, i - 1)}
        start(k) == CHOOSE i \in starts : Cardinality({j \in starts : j <= i}) = k
        end(i) == CHOOSE j \in i..Len(s) :
                      /\ ~InToken(s, j + 1)
                      /\ \A m \in i..j : InToken(s, m)
    IN  [k \in 1..Cardinality(starts) |-> SubSeq(s, start(k), end(start(k)))]

\* re.sub(r'[^\w\s]', '', word): the cleaned halves of word, joined
RECURSIVE clean_word(_)
clean_word(word) ==
    IF Len(word) = 0
    THEN ""
    ELSE IF Len(word) = 1
    THEN (IF IsWordChar(word) \/ word \in Whitespace THEN word ELSE "")
    ELSE clean_word(SubSeq(word, 1, Len(word) \div 2))
             \o clean_word(SubSeq(word, Len(word) \div 2 + 1, Len(word)))

\* a lookup of the word as typed, punctuation included
synonyms_for_as_typed(word) ==
    IF word \in DOMAIN SYNONYM_MAPPING THEN SYNONYM_MAPPING[word] ELSE << >>

\* the body of the for loop of expand_query_with_synonyms: what one word adds
synonyms_for(word) ==
    IF clean_word(word) \in DOMAIN SYNONYM_MAPPING
    THEN SYNONYM_MAPPING[clean_word(word)]
    ELSE << >>

\* the for loop of expand_query_with_synonyms over words: what the first
\* half of the words adds, then what the second half adds
RECURSIVE matched_synonyms(_)
matched_synonyms(words) ==
    IF words = << >>
    THEN << >>
    ELSE IF Len(words) = 1
    THEN synonyms_for(Head(words))
    ELSE matched_synonyms(SubSeq(words, 1, Len(words) \div 2))
             \o matched_synonyms(SubSeq(words, Len(words) \div 2 + 1, Len(words)))

\* a list that keeps duplicates
fromkeys_keeps_all(items) ==
    items

\* list(dict.fromkeys(items)): each item once, at its first position
fromkeys(items) ==
    LET first == {i \in 1..Len(items) : \A j \in 1..(i - 1) : items[j] # items[i]}
        nth(k) == CHOOSE i \in first : Cardinality({j \in first : j <= i}) = k
    IN  [k \in 1..Cardinality(first) |-> items[nth(k)]]

\* sep.join(items): the joined halves of items with sep between them
RECURSIVE join(_, _)
join(sep, items) ==
    IF items = << >>
    THEN ""
    ELSE IF Len(items) = 1
    THEN Head(items)
    ELSE join(sep, SubSeq(items, 1, Len(items) \div 2))
             \o sep \o join(sep, SubSeq(items, Len(items) \div 2 + 1, Len(items)))

\* the list expand_query_with_synonyms joins
extended_words(query) ==
    LET words == split(lower(query))
    IN  words \o matched_synonyms(words)

expanded_words(query) ==
    fromkeys(extended_words(query))

expand_query_with_synonyms(query) ==
    join(" ", expanded_words(query))

(* ------------------- prompt_templates.py (66-243) ---------------------- *)

\* the system prompts, each by its first sentence
HIGH_CONFIDENCE_PROMPT ==
    "You are an IT Support Assistant that primarily uses information from the provided context."
MEDIUM_CONFIDENCE_PROMPT ==
    "You are an IT Support Assistant that uses a combination of provided context and professional judgment."
LOW_CONFIDENCE_PROMPT ==
    "You are an IT Support Assistant that combines limited documentation with general IT knowledge."
FALLBACK_SYSTEM_PROMPT ==
    "You are an IT Support Assistant with general knowledge capabilities."

\* str.strip()
RECURSIVE strip(_)
strip(s) ==
    IF s = ""
    THEN ""
    ELSE IF SubSeq(s, 1, 1) \in Whitespace
         THEN strip(SubSeq(s, 2, Len(s)))
         ELSE IF SubSeq(s, Len(s), Len(s)) \in Whitespace
              THEN strip(SubSeq(s, 1, Len(s) - 1))
              ELSE s

NO_DOCUMENTATION == "No specific documentation available for this query."

\* the numbering starting at 0 (enumerate without its second argument)
format_context_from_zero(documents) ==
    IF documents = << >> \/ (Len(documents) = 1 /\ documents[1] = NO_RESULTS_DOC)
    THEN NO_DOCUMENTATION
    ELSE join("\n\n", [i \in 1..Len(documents) |->
                          "DOCUMENT " \o ToString(i - 1) \o ":\n" \o strip(documents[i])])

format_context_from_docs(documents) ==
    IF documents = << >> \/ (Len(documents) = 1 /\ documents[1] = NO_RESULTS_DOC)
    THEN NO_DOCUMENTATION
    ELSE join("\n\n", [i \in 1..Len(documents) |->
                          "DOCUMENT " \o ToString(i) \o ":\n" \o strip(documents[i])])

\* the content of the second system message of the three document prompts
context_message(fn, documents, it_related) ==
    "CONTEXT:\n" \o format_context_from_docs(documents) \o "\n\n" \o
    (IF fn = "create_high_confidence_prompt"
     THEN "Use this information to answer the user's question."
     ELSE IF fn = "create_medium_confidence_prompt"
     THEN "Use this information as a starting point, but you may expand with relevant IT knowledge."
     ELSE IF it_related
     THEN "The above context may be only partially relevant. Use it where applicable, but supplement with general IT knowledge where needed."
     ELSE "The above context may have limited relevance. Focus on providing a generally helpful response.")

\* the second system message of create_fallback_prompt
IT_RELATED_NOTE ==
    "This appears to be an IT-related question. Provide general best practices and advice, but make it clear you're providing general information rather than company-specific procedures."

\* the IT-related note added whatever the flag says
system_messages_always_notes(p) ==
    IF p.fn = "create_high_confidence_prompt"
    THEN << Message("system", HIGH_CONFIDENCE_PROMPT),
            Message("system", context_message(p.fn, p.documents, FALSE)) >>
    ELSE IF p.fn = "create_medium_confidence_prompt"
    THEN << Message("system", MEDIUM_CONFIDENCE_PROMPT),
            Message("system", context_message(p.fn, p.documents, FALSE)) >>
    ELSE IF p.fn = "create_low_confidence_prompt"
    THEN << Message("system", LOW_CONFIDENCE_PROMPT),
            Message("system", context_message(p.fn, p.documents, p.is_it_related)) >>
    ELSE << Message("system", FALLBACK_SYSTEM_PROMPT), Message("system", IT_RELATED_NOTE) >>

\* the system messages each function starts its list with
system_messages(p) ==
    IF p.fn = "create_high_confidence_prompt"
    THEN << Message("system", HIGH_CONFIDENCE_PROMPT),
            Message("system", context_message(p.fn, p.documents, FALSE)) >>
    ELSE IF p.fn = "create_medium_confidence_prompt"
    THEN << Message("system", MEDIUM_CONFIDENCE_PROMPT),
            Message("system", context_message(p.fn, p.documents, FALSE)) >>
    ELSE IF p.fn = "create_low_confidence_prompt"
    THEN << Message("system", LOW_CONFIDENCE_PROMPT),
            Message("system", context_message(p.fn, p.documents, p.is_it_related)) >>
    ELSE << Message("system", FALLBACK_SYSTEM_PROMPT) >> \o
         (IF p.is_it_related
          THEN << Message("system", IT_RELATED_NOTE) >>
          ELSE << >>)

\* the slice taken from the front: conversation_history[:n]
history_window_oldest(conversation_history, n) ==
    SubSeq(conversation_history, 1, IF n < Len(conversation_history) THEN n ELSE Len(conversation_history))

\* conversation_history[-n:] for n >= 0 (-0 is 0: the whole list)
history_window(conversation_history, n) ==
    IF n = 0 \/ n >= Len(conversation_history)
    THEN conversation_history
    ELSE SubSeq(conversation_history, Len(conversation_history) - n + 1,
                Len(conversation_history))

\* the message list the create_*_prompt call p returns when
\* config.MAX_CONVERSATION_HISTORY is n
create_prompt(p, n) ==
    system_messages(p)
        \o history_window(p.conversation_history, n)
        \o << Message("user", p.query) >>

(* ------------------------------ the state ------------------------------ *)

VARIABLES
    MAX_CONVERSATION_HISTORY,  \* config.MAX_CONVERSATION_HISTORY
    conversation_instances,    \* qa_tool.conversation_instances: id -> Conversation
    pc,                        \* where each caller's get_answer call stands
    call,                      \* the local variables of each get_answer call
    ncalls,                    \* number of get_answer calls started so far
    expand_input,              \* the query handed to expand_query_with_synonyms
    expand_output,             \* what each successive expansion pass returned
    prompt_call,               \* the create_*_prompt call made directly, if any
    prompt_messages,           \* the message list that call returned
    conversations,             \* ChatBridge.conversations: id -> persisted thread
    active_conversation_id,    \* ChatBridge.active_conversation_id
    pinned_conversations,      \* ChatBridge.pinned_conversations
    last_slot,                 \* history variable: the ChatBridge slot that ran last
    dicts,                     \* the message dicts a caller can reach, by identity
    self_messages,             \* Conversation.messages as the list of their identities
    returned                   \* the list a caller holds, as a list of identities

\* the variables of get_answer, reset_conversation and Conversation
qa_vars == <<MAX_CONVERSATION_HISTORY, conversation_instances, pc, call, ncalls>>

expand_vars == <<expand_input, expand_output>>

prompt_vars == <<prompt_call, prompt_messages>>

bridge_vars == <<conversations, active_conversation_id, pinned_conversations, last_slot>>

\* the objects of a caller that keeps what get_history or a prompt function
\* returned
copy_vars == <<dicts, self_messages, returned>>

\* the variables get_answer, reset_conversation and Conversation never touch
aux_vars == <<expand_vars, prompt_vars, bridge_vars, copy_vars>>

vars == <<qa_vars, aux_vars>>

\* expand_query_with_synonyms has not been called
NoExpansion == expand_input = "" /\ expand_output = << >>

\* no create_*_prompt function has been called directly
NoPromptBuilt == prompt_call = NoPrompt /\ prompt_messages = << >>

\* no caller holds a returned list
NoCopies == dicts = << >> /\ self_messages = << >> /\ returned = << >>

\* a record of ChatBridge.conversations
Entry(title, messages, pinned, pinOrder) ==
    [title |-> title, messages |-> messages, pinned |-> pinned, pinOrder |-> pinOrder]

\* the record sendMessage, createNewConversation and __init__ create
NewChat == Entry("New Chat", << >>, FALSE, -1)

\* ChatBridge.__init__ with no conversations.json on disk
BridgeInit ==
    /\ conversations = [id \in {"default"} |-> NewChat]
    /\ active_conversation_id = "default"
    /\ pinned_conversations = << >>
    /\ last_slot = "__init__"

\* the locals of a get_answer call.  conv0 and calls are history variables:
\* the Conversation as the call found it (after creating it when the id was
\* new) and the external calls made so far, in order.  raised is the text of
\* the exception the except clause caught and context the class of the client
\* exception during whose handling it was raised (its __context__).
NoFound == [relevant_docs |-> << >>, similarity_scores |-> << >>, has_results |-> FALSE]

NoConv == [max_history |-> None, messages |-> << >>, appended |-> << >>]

NoCall ==
    [ query |-> "", conversation_id |-> "", conv0 |-> NoConv, found |-> NoFound,
      messages |-> NoPrompt, raised |-> "", context |-> "", result |-> "",
      calls |-> << >> ]

\* conversation_instances = {"default": Conversation()}
Init ==
    /\ MAX_CONVERSATION_HISTORY \in HistoryLimits
    /\ conversation_instances = [id \in {"default"} |-> Conversation(None, MAX_CONVERSATION_HISTORY)]
    /\ pc = [t \in Threads |-> "idle"]
    /\ call = [t \in Threads |-> NoCall]
    /\ ncalls = 0
    /\ NoExpansion
    /\ NoPromptBuilt
    /\ BridgeInit
    /\ NoCopies

\* a store whose ids all name one shared Conversation object
store_shared(conversation_id, conv) ==
    [id \in DOMAIN conversation_instances \cup {conversation_id} |-> conv]

\* conversation_instances[conversation_id] = conv
store(conversation_id, conv) ==
    [id \in DOMAIN conversation_instances \cup {conversation_id} |->
        IF id = conversation_id THEN conv ELSE conversation_instances[id]]

\* get_answer, "Get or create conversation instance"
get_or_create(conversation_id) ==
    IF conversation_id \in DOMAIN conversation_instances
    THEN conversation_instances[conversation_id]
    ELSE Conversation(None, MAX_CONVERSATION_HISTORY)

\* the Conversation a running call works on
conv_of(t) == conversation_instances[call[t].conversation_id]

\* no get_answer call is between its first and last statement
NoCallInProgress == \A t \in Threads : pc[t] = "idle"

(* ------------------------------ get_answer ----------------------------- *)

\* get_answer up to the search: the conversation is looked up or created,
\* the user message is appended, and a canned query is answered at once
get_answer_begin(t, query, conversation_id) ==
    LET conv0  == get_or_create(conversation_id)
        conv   == add_user_message(conv0, query)
        canned == asked_canned_response[query]
        c      == [NoCall EXCEPT !.query = query,
                                 !.conversation_id = conversation_id,
                                 !.conv0 = conv0]
    IN  IF canned # ""
        THEN /\ conversation_instances' =
                    store(conversation_id, add_assistant_message(conv, canned))
             /\ call' = [call EXCEPT ![t] = [c EXCEPT !.result = canned]]
             /\ pc' = [pc EXCEPT ![t] = "done"]
        ELSE /\ conversation_instances' = store(conversation_id, conv)
             /\ call' = [call EXCEPT ![t] = c]
             /\ pc' = [pc EXCEPT ![t] = "search"]

\* a caller on the main thread starts get_answer: no other call is running
GetAnswerStart(t, query, conversation_id) ==
    /\ pc[t] = "idle"
    /\ NoCallInProgress
    /\ ncalls < MaxCalls
    /\ ncalls' = ncalls + 1
    /\ get_answer_begin(t, query, conversation_id)
    /\ UNCHANGED MAX_CONVERSATION_HISTORY
    /\ UNCHANGED aux_vars

\* search_configs returns and the prompt is built from its result
SearchReturns(t, results) ==
    /\ pc[t] = "search"
    /\ LET found == search_configs(results)
       IN  call' = [call EXCEPT ![t].found = found,
                                ![t].messages =
                                    choose_prompt(call[t].query, found,
                                                  get_history(conv_of(t))),
                                ![t].calls = @ \o <<"model.encode", "collection.query">>]
    /\ pc' = [pc EXCEPT ![t] = "complete"]
    /\ UNCHANGED <<MAX_CONVERSATION_HISTORY, conversation_instances, ncalls>>
    /\ UNCHANGED aux_vars

\* the except clause runs for an exception e raised by the external calls made
Except(t, e, context, made) ==
    LET h == handle_exception(conv_of(t), e)
    IN  /\ conversation_instances' = store(call[t].conversation_id, h.conv)
        /\ call' = [call EXCEPT ![t].raised = e, ![t].context = context,
                                 ![t].result = h.result, ![t].calls = @ \o made]
        /\ pc' = [pc EXCEPT ![t] = "done"]

\* model.encode or collection.query raises inside search_configs
SearchRaises(t, e) ==
    /\ pc[t] = "search"
    /\ Except(t, e, "", <<"model.encode", "collection.query">>)
    /\ UNCHANGED <<MAX_CONVERSATION_HISTORY, ncalls>>
    /\ UNCHANGED aux_vars

\* llm_api.create_chat_completion returns a response
CompletionReturns(t, response) ==
    /\ pc[t] = "complete"
    /\ conversation_instances' =
           store(call[t].conversation_id, add_assistant_message(conv_of(t), response))
    /\ call' = [call EXCEPT ![t].result = response,
                             ![t].calls = @ \o <<"create_chat_completion",
                                                  "client.chat.completions.create">>]
    /\ pc' = [pc EXCEPT ![t] = "done"]
    /\ UNCHANGED <<MAX_CONVERSATION_HISTORY, ncalls>>
    /\ UNCHANGED aux_vars

\* the client raises error and llm_api.create_chat_completion raises in turn
CompletionRaises(t, error) ==
    /\ pc[t] = "complete"
    /\ Except(t, create_chat_completion_raises(error), error, completion_calls(error))
    /\ UNCHANGED <<MAX_CONVERSATION_HISTORY, ncalls>>
    /\ UNCHANGED aux_vars

\* get_answer returns call[t].result to its caller
GetAnswerReturn(t) ==
    /\ pc[t] = "done"
    /\ pc' = [pc EXCEPT ![t] = "idle"]
    /\ call' = [call EXCEPT ![t] = NoCall]
    /\ UNCHANGED <<MAX_CONVERSATION_HISTORY, conversation_instances, ncalls>>
    /\ UNCHANGED aux_vars

\* the body of reset_conversation: the store after the call
reset(conversation_id) ==
    IF conversation_id \in DOMAIN conversation_instances
    THEN store(conversation_id, clear(conversation_instances[conversation_id]))
    ELSE store(conversation_id, Conversation(None, MAX_CONVERSATION_HISTORY))

\* reset_conversation called between two get_answer calls
reset_conversation(conversation_id) ==
    /\ NoCallInProgress
    /\ conversation_instances' = reset(conversation_id)
    /\ UNCHANGED <<MAX_CONVERSATION_HISTORY, pc, call, ncalls>>
    /\ UNCHANGED aux_vars

Next ==
    \/ \E t \in Threads, query \in Queries, id \in ConvIds : GetAnswerStart(t, query, id)
    \/ \E t \in Threads, results \in IndexResults : SearchReturns(t, results)
    \/ \E t \in Threads, e \in SearchErrors : SearchRaises(t, e)
    \/ \E t \in Threads, response \in Responses : CompletionReturns(t, response)
    \/ \E t \in Threads, error \in ClientErrors : CompletionRaises(t, error)
    \/ \E t \in Threads : GetAnswerReturn(t)
    \/ \E id \in ConvIds : reset_conversation(id)

Spec == Init /\ [][Next]_vars

(* ------------- a Conversation used on its own (conversation.py) -------- *)

\* message texts appended directly
Texts == Queries \cup Responses

\* a Conversation constructed with an explicit max_history or with the
\* configured default, as the test at the end of conversation.py builds one
InitConv ==
    /\ MAX_CONVERSATION_HISTORY \in HistoryLimits
    /\ \E max_history \in {None} \cup HistoryLimits :
           conversation_instances =
               [id \in {"default"} |-> Conversation(max_history, MAX_CONVERSATION_HISTORY)]
    /\ pc = [t \in Threads |-> "idle"]
    /\ call = [t \in Threads |-> NoCall]
    /\ ncalls = 0
    /\ NoExpansion
    /\ NoPromptBuilt
    /\ BridgeInit
    /\ NoCopies

\* conv.add_user_message(message)
AddUserMessage(id, message) ==
    /\ Len(conversation_instances[id].appended) < MaxAppends
    /\ conversation_instances' = store(id, add_user_message(conversation_instances[id], message))
    /\ UNCHANGED <<MAX_CONVERSATION_HISTORY, pc, call, ncalls>>
    /\ UNCHANGED aux_vars

\* conv.add_assistant_message(message)
AddAssistantMessage(id, message) ==
    /\ Len(conversation_instances[id].appended) < MaxAppends
    /\ conversation_instances' =
           store(id, add_assistant_message(conversation_instances[id], message))
    /\ UNCHANGED <<MAX_CONVERSATION_HISTORY, pc, call, ncalls>>
    /\ UNCHANGED aux_vars

\* conv.clear()
Clear(id) ==
    /\ conversation_instances' = store(id, clear(conversation_instances[id]))
    /\ UNCHANGED <<MAX_CONVERSATION_HISTORY, pc, call, ncalls>>
    /\ UNCHANGED aux_vars

NextConv ==
    \/ \E message \in Texts : AddUserMessage("default", message)
    \/ \E message \in Texts : AddAssistantMessage("default", message)
    \/ Clear("default")

SpecConv == InitConv /\ [][NextConv]_vars

(* --------------- expand_query_with_synonyms used on its own ------------ *)

\* words a query is typed from, and what is typed between two words
ExpandWords == {"Reset", "change", "password?", "login", "email", "the"}
Separators == {" ", "  "}

ExpandQueries ==
    { join(sep, words) :
        sep \in Separators,
        words \in UNION {[1..n -> ExpandWords] : n \in 0..MaxWords} }

InitExpand ==
    /\ MAX_CONVERSATION_HISTORY \in {MaxHistory}
    /\ conversation_instances = [id \in {"default"} |-> Conversation(None, MAX_CONVERSATION_HISTORY)]
    /\ pc = [t \in Threads |-> "idle"]
    /\ call = [t \in Threads |-> NoCall]
    /\ ncalls = 0
    /\ expand_input \in ExpandQueries
    /\ expand_output = << >>
    /\ NoPromptBuilt
    /\ BridgeInit
    /\ NoCopies

\* the text the next pass expands: the query, then the previous pass's result
pass_input(k) == IF k = 1 THEN expand_input ELSE expand_output[k - 1]

\* expand_query_with_synonyms is called on the query, then on its own result
ExpandQuery ==
    /\ Len(expand_output) < MaxPasses
    /\ expand_output' =
           Append(expand_output,
                  expand_query_with_synonyms(pass_input(Len(expand_output) + 1)))
    /\ UNCHANGED <<qa_vars, expand_input, prompt_vars, bridge_vars, copy_vars>>

NextExpand == ExpandQuery

SpecExpand == InitExpand /\ [][NextExpand]_vars

(* ------------- the create_*_prompt functions used on their own -------- *)

PromptFunctions ==
    { "create_high_confidence_prompt", "create_medium_confidence_prompt",
      "create_low_confidence_prompt", "create_fallback_prompt" }

PromptQueries == {"How do I reset a password?", "What is the capital of France?"}

\* the messages a supplied history is made of
HistoryMessages ==
    {Message(role, "How are you") : role \in {"user"}}
        \cup {Message(role, content) : role \in {"assistant"}, content \in Responses \cup {GREETING_RESPONSE}}

SuppliedHistories == UNION {[1..n -> HistoryMessages] : n \in 0..MaxSupplied}

\* the document lists handed to a prompt function: index results, the list
\* search_configs returns for an empty result, and a list whose first text
\* has white space around it
SuppliedDocuments ==
    {SubSeq(DocTexts, 1, n) : n \in 0..MaxDocs}
        \cup {<<NO_RESULTS_DOC>>}
        \cup {<<"  Mailbox permissions guide\n", DocTexts[1]>>}

InitPrompt ==
    /\ MAX_CONVERSATION_HISTORY \in HistoryLimits
    /\ conversation_instances = [id \in {"default"} |-> Conversation(None, MAX_CONVERSATION_HISTORY)]
    /\ pc = [t \in Threads |-> "idle"]
    /\ call = [t \in Threads |-> NoCall]
    /\ ncalls = 0
    /\ NoExpansion
    /\ NoPromptBuilt
    /\ BridgeInit
    /\ NoCopies

\* one of the four functions is called; create_fallback_prompt takes no
\* documents, the high and medium functions take no is_it_related
CreatePrompt(fn, query, documents, conversation_history, it_related) ==
    /\ prompt_call = NoPrompt
    /\ fn = "create_fallback_prompt" => documents = << >>
    /\ fn \in {"create_high_confidence_prompt", "create_medium_confidence_prompt"}
           => ~it_related
    /\ LET p == PromptCall(fn, query, documents, conversation_history, it_related)
       IN  /\ prompt_call' = p
           /\ prompt_messages' = create_prompt(p, MAX_CONVERSATION_HISTORY)
    /\ UNCHANGED <<qa_vars, expand_vars, bridge_vars, copy_vars>>

NextPrompt ==
    \E fn \in PromptFunctions, query \in PromptQueries, documents \in SuppliedDocuments,
       conversation_history \in SuppliedHistories, it_related \in BOOLEAN :
        CreatePrompt(fn, query, documents, conversation_history, it_related)

SpecPrompt == InitPrompt /\ [][NextPrompt]_vars

(* ------------- get_answer called from several threads at once ---------- *)

\* two callers that do not wait for each other; nothing in qa_tool.py or
\* conversation.py takes a lock
Workers == {"w1", "w2"}

ConcurrentQueries == {"How are you", "How do I reset a password?"}

\* the empty index result and the results of one document at the high
\* threshold
ConcurrentResults ==
    {results \in IndexResults :
        /\ Len(results.docs) <= 1
        /\ \A i \in 1..Len(results.docs) : results.distances[i] = high_threshold}

\* the client error the workers meet
ConcurrentErrors == {"RateLimitError"}

InitConcurrent ==
    /\ MAX_CONVERSATION_HISTORY \in HistoryLimits
    /\ conversation_instances = [id \in {"default"} |-> Conversation(None, MAX_CONVERSATION_HISTORY)]
    /\ pc = [t \in Workers |-> "idle"]
    /\ call = [t \in Workers |-> NoCall]
    /\ ncalls = 0
    /\ NoExpansion
    /\ NoPromptBuilt
    /\ BridgeInit
    /\ NoCopies

\* a worker starts get_answer whatever the other worker is doing
ConcurrentGetAnswerStart(t, query, conversation_id) ==
    /\ pc[t] = "idle"
    /\ ncalls < MaxCalls
    /\ ncalls' = ncalls + 1
    /\ get_answer_begin(t, query, conversation_id)
    /\ UNCHANGED MAX_CONVERSATION_HISTORY
    /\ UNCHANGED aux_vars

\* reset_conversation called while get_answer calls may be running
ConcurrentReset(conversation_id) ==
    /\ conversation_instances' = reset(conversation_id)
    /\ UNCHANGED <<MAX_CONVERSATION_HISTORY, pc, call, ncalls>>
    /\ UNCHANGED aux_vars

NextConcurrent ==
    \/ \E t \in Workers, query \in ConcurrentQueries, id \in ConvIds :
           ConcurrentGetAnswerStart(t, query, id)
    \/ \E t \in Workers, results \in ConcurrentResults : SearchReturns(t, results)
    \/ \E t \in Workers, e \in SearchErrors : SearchRaises(t, e)
    \/ \E t \in Workers, response \in Responses : CompletionReturns(t, response)
    \/ \E t \in Workers, error \in ConcurrentErrors : CompletionRaises(t, error)
    \/ \E t \in Workers : GetAnswerReturn(t)
    \/ \E id \in ConvIds : ConcurrentReset(id)

SpecConcurrent == InitConcurrent /\ [][NextConcurrent]_vars

(* --------------------- ChatBridge (chat_ui.py, 23-378) ----------------- *)

\* the ways a whole get_answer(query) call on the Conversation conv0 can
\* end: the Conversation it leaves and the text it returns
get_answer_outcomes(conv0, query) ==
    LET conv   == add_user_message(conv0, query)
        canned == asked_canned_response[query]
    IN  IF canned # ""
        THEN {[conv |-> add_assistant_message(conv, canned), result |-> canned]}
        ELSE {handle_exception(conv, e) : e \in SearchErrors \cup CompletionErrors}
                 \cup {[conv |-> add_assistant_message(conv, response), result |-> response] :
                          response \in Responses}

\* [p for p in self.pinned_conversations if p["id"] != conversation_id]
without(pinned, conversation_id) ==
    SelectSeq(pinned, LAMBDA p : p.id # conversation_id)

\* the loop "for i, item in enumerate(self.pinned_conversations)" from the
\* k-th item on; it stops with a KeyError at an item whose id has no record
RECURSIVE reorder_from(_, _, _)
reorder_from(convs, pinned, k) ==
    IF k > Len(pinned)
    THEN [conversations |-> convs, pinned_conversations |-> pinned, raised |-> FALSE]
    ELSE IF pinned[k].id \notin DOMAIN convs
    THEN [conversations |-> convs, pinned_conversations |-> pinned, raised |-> TRUE]
    ELSE reorder_from([convs EXCEPT ![pinned[k].id].pinOrder = k - 1],
                      [pinned EXCEPT ![k].order = k - 1], k + 1)

reorder(convs, pinned) == reorder_from(convs, pinned, 1)

\* sendMessage(message, conversation_id)
sendMessage(message, conversation_id) ==
    /\ last_slot' = "sendMessage"
    /\ ncalls < MaxSends
    /\ IF strip(message) # ""
       THEN /\ active_conversation_id' = conversation_id
            /\ ncalls' = ncalls + 1
            /\ \E outcome \in get_answer_outcomes(get_or_create(conversation_id), message) :
                   /\ conversation_instances' = store(conversation_id, outcome.conv)
                   /\ LET entry == IF conversation_id \in DOMAIN conversations
                                   THEN conversations[conversation_id]
                                   ELSE NewChat
                      IN  conversations' =
                              [id \in DOMAIN conversations \cup {conversation_id} |->
                                  IF id = conversation_id
                                  THEN [entry EXCEPT !.messages =
                                           @ \o << Message("user", message),
                                                   Message("assistant", outcome.result) >>]
                                  ELSE conversations[id]]
            /\ UNCHANGED pinned_conversations
       ELSE UNCHANGED <<conversation_instances, ncalls, conversations,
                        active_conversation_id, pinned_conversations>>
    /\ UNCHANGED <<MAX_CONVERSATION_HISTORY, pc, call, expand_vars, prompt_vars, copy_vars>>

\* createNewConversation(conversation_id)
createNewConversation(conversation_id) ==
    /\ last_slot' = "createNewConversation"
    /\ IF conversation_id \notin DOMAIN conversations
       THEN /\ conversations' =
                   [id \in DOMAIN conversations \cup {conversation_id} |->
                       IF id = conversation_id THEN NewChat ELSE conversations[id]]
            /\ active_conversation_id' = conversation_id
            /\ conversation_instances' = reset(conversation_id)
       ELSE UNCHANGED <<conversations, active_conversation_id, conversation_instances>>
    /\ UNCHANGED <<MAX_CONVERSATION_HISTORY, pc, call, ncalls, pinned_conversations,
                   expand_vars, prompt_vars, copy_vars>>

\* renameConversation(conversation_id, new_title)
renameConversation(conversation_id, new_title) ==
    /\ last_slot' = "renameConversation"
    /\ conversations' =
           IF conversation_id \in DOMAIN conversations
           THEN [conversations EXCEPT ![conversation_id].title = new_title]
           ELSE conversations
    /\ UNCHANGED <<qa_vars, active_conversation_id, pinned_conversations,
                   expand_vars, prompt_vars, copy_vars>>

\* pinConversation(conversation_id)
pinConversation(conversation_id) ==
    /\ last_slot' = "pinConversation"
    /\ Len(pinned_conversations) < MaxPins
    /\ IF conversation_id \in DOMAIN conversations
       THEN LET pin_order == Len(pinned_conversations)
            IN  /\ conversations' =
                       [conversations EXCEPT ![conversation_id].pinned = TRUE,
                                             ![conversation_id].pinOrder = pin_order]
                /\ pinned_conversations' =
                       Append(pinned_conversations,
                              [id |-> conversation_id, order |-> pin_order])
       ELSE UNCHANGED <<conversations, pinned_conversations>>
    /\ UNCHANGED <<qa_vars, active_conversation_id, expand_vars, prompt_vars, copy_vars>>
\* unpinConversation(conversation_id); a KeyError in the reorder loop ends
\* the slot with what the loop has done so far
unpinConversation(conversation_id) ==
    /\ last_slot' = "unpinConversation"
    /\ IF conversation_id \in DOMAIN conversations
       THEN LET done == reorder([conversations EXCEPT ![conversation_id].pinned = FALSE,
                                                      ![conversation_id].pinOrder = -1],
                                without(pinned_conversations, conversation_id))
            IN  /\ conversations' = done.conversations
                /\ pinned_conversations' = done.pinned_conversations
       ELSE UNCHANGED <<conversations, pinned_conversations>>
    /\ UNCHANGED <<qa_vars, active_conversation_id, expand_vars, prompt_vars, copy_vars>>

\* the lists of ids the GUI can pass as the new pin order: each id at most
\* once
PinOrders ==
    {pin_order \in UNION {[1..n -> ConvIds] : n \in 0..Cardinality(ConvIds)} :
        \A i, j \in 1..Len(pin_order) : pin_order[i] = pin_order[j] => i = j}

\* the loop of updatePinOrder from the k-th id of pin_order on
RECURSIVE update_from(_, _, _, _)
update_from(convs, pinned, pin_order, k) ==
    IF k > Len(pin_order)
    THEN [conversations |-> convs, pinned_conversations |-> pinned]
    ELSE IF pin_order[k] \in DOMAIN convs
    THEN update_from([convs EXCEPT ![pin_order[k]].pinOrder = k - 1],
                     Append(pinned, [id |-> pin_order[k], order |-> k - 1]),
                     pin_order, k + 1)
    ELSE update_from(convs, pinned, pin_order, k + 1)

\* updatePinOrder(pin_order_json), the json text being the list pin_order
updatePinOrder(pin_order) ==
    /\ last_slot' = "updatePinOrder"
    /\ LET done == update_from(conversations, << >>, pin_order, 1)
       IN  /\ conversations' = done.conversations
           /\ pinned_conversations' = done.pinned_conversations
    /\ UNCHANGED <<qa_vars, active_conversation_id, expand_vars, prompt_vars, copy_vars>>

\* deleteConversation(conversation_id); a KeyError in the reorder loop ends
\* the slot before the record is deleted
deleteConversation(conversation_id) ==
    /\ last_slot' = "deleteConversation"
    /\ IF conversation_id \in DOMAIN conversations
       THEN LET done == IF conversations[conversation_id].pinned
                        THEN reorder(conversations,
                                     without(pinned_conversations, conversation_id))
                        ELSE [conversations |-> conversations,
                              pinned_conversations |-> pinned_conversations,
                              raised |-> FALSE]
            IN  /\ conversations' =
                       IF done.raised
                       THEN done.conversations
                       ELSE [id \in DOMAIN done.conversations \ {conversation_id} |->
                                done.conversations[id]]
                /\ pinned_conversations' = done.pinned_conversations
       ELSE UNCHANGED <<conversations, pinned_conversations>>
    /\ UNCHANGED <<qa_vars, active_conversation_id, expand_vars, prompt_vars, copy_vars>>

\* switchConversation(conversation_id)
switchConversation(conversation_id) ==
    /\ last_slot' = "switchConversation"
    /\ IF conversation_id \in DOMAIN conversations
       THEN /\ active_conversation_id' = conversation_id
            /\ conversation_instances' = reset(conversation_id)
       ELSE UNCHANGED <<active_conversation_id, conversation_instances>>
    /\ UNCHANGED <<MAX_CONVERSATION_HISTORY, pc, call, ncalls, conversations,
                   pinned_conversations, expand_vars, prompt_vars, copy_vars>>

\* a reset that builds the record anew from the defaults
reset_entry_as_new(entry) ==
    NewChat

\* the record resetConversation stores for the active conversation
reset_entry(entry) ==
    Entry(entry.title, << >>, entry.pinned, entry.pinOrder)

\* resetConversation()
resetConversation ==
    /\ last_slot' = "resetConversation"
    /\ conversation_instances' = reset(active_conversation_id)
    /\ conversations' =
           IF active_conversation_id \in DOMAIN conversations
           THEN [conversations EXCEPT ![active_conversation_id] = reset_entry(@)]
           ELSE conversations
    /\ UNCHANGED <<MAX_CONVERSATION_HISTORY, pc, call, ncalls, active_conversation_id,
                   pinned_conversations, expand_vars, prompt_vars, copy_vars>>

NextBridge ==
    \/ \E message \in BridgeMessages, id \in ConvIds : sendMessage(message, id)
    \/ \E id \in ConvIds : createNewConversation(id)
    \/ \E id \in ConvIds, new_title \in BridgeTitles : renameConversation(id, new_title)
    \/ \E id \in ConvIds : pinConversation(id)
    \/ \E id \in ConvIds : unpinConversation(id)
    \/ \E pin_order \in PinOrders : updatePinOrder(pin_order)
    \/ \E id \in ConvIds : deleteConversation(id)
    \/ \E id \in ConvIds : switchConversation(id)
    \/ resetConversation

\* the GUI has started: qa_tool is imported, the ChatBridge constructed
InitBridge ==
    /\ MAX_CONVERSATION_HISTORY = MaxHistory
    /\ conversation_instances = [id \in {"default"} |-> Conversation(None, MAX_CONVERSATION_HISTORY)]
    /\ pc = [t \in Threads |-> "idle"]
    /\ call = [t \in Threads |-> NoCall]
    /\ ncalls = 0
    /\ NoExpansion
    /\ NoPromptBuilt
    /\ BridgeInit
    /\ NoCopies

SpecBridge == InitBridge /\ [][NextBridge]_vars

(* ------- a caller that keeps a returned list (conversation.py 64-71) ---- *)

\* what the caller writes into a list or a message it holds
CALLER_TEXT == "changed by the caller"

\* the content appended for a role
CopyContent == [role \in {"user", "assistant"} |->
                   IF role = "user" THEN "How are you" ELSE GREETING_RESPONSE]

\* the dicts a list of identities refers to, in list order
Deref(objects, list) == [i \in 1..Len(list) |-> objects[list[i]]]

\* the Conversation of "default" when its list self.messages refers to objects
Showing(objects) ==
    store("default", [conversation_instances["default"] EXCEPT
                         !.messages = Deref(objects, self_messages)])

InitCopy ==
    /\ MAX_CONVERSATION_HISTORY \in HistoryLimits
    /\ conversation_instances = [id \in {"default"} |-> Conversation(None, MAX_CONVERSATION_HISTORY)]
    /\ pc = [t \in Threads |-> "idle"]
    /\ call = [t \in Threads |-> NoCall]
    /\ ncalls = 0
    /\ NoExpansion
    /\ NoPromptBuilt
    /\ BridgeInit
    /\ NoCopies

\* add_user_message / add_assistant_message: a new dict is appended to
\* self.messages and _trim_history rebinds self.messages to a slice
CopyAddMessage(role) ==
    /\ Len(dicts) < MaxDicts
    /\ dicts' = Append(dicts, Message(role, CopyContent[role]))
    /\ self_messages' =
           trim_history([conversation_instances["default"] EXCEPT
                            !.messages = Append(self_messages, Len(dicts) + 1)]).messages
    /\ conversation_instances' =
           store("default",
                 IF role = "user"
                 THEN add_user_message(conversation_instances["default"], CopyContent[role])
                 ELSE add_assistant_message(conversation_instances["default"], CopyContent[role]))
    /\ UNCHANGED <<MAX_CONVERSATION_HISTORY, pc, call, ncalls, returned,
                   expand_vars, prompt_vars, bridge_vars>>

\* the caller calls get_history(): self.messages.copy() is a new list of the
\* same dicts
GetHistory ==
    /\ returned' = self_messages
    /\ UNCHANGED <<qa_vars, dicts, self_messages, expand_vars, prompt_vars, bridge_vars>>

\* the caller calls create_fallback_prompt(query, conv.get_history()): new
\* dicts for the system message and the query, the dicts of the history
\* window between them
CreatePromptFromHistory(query) ==
    LET p == PromptCall("create_fallback_prompt", query, << >>, << >>, FALSE)
        made == system_messages(p) \o << Message("user", query) >>
    IN  /\ Len(dicts) + Len(made) <= MaxDicts
        /\ dicts' = dicts \o made
        /\ returned' =
               [i \in 1..Len(system_messages(p)) |-> Len(dicts) + i]
                   \o history_window(self_messages, MAX_CONVERSATION_HISTORY)
                   \o << Len(dicts) + Len(made) >>
        /\ UNCHANGED <<qa_vars, self_messages, expand_vars, prompt_vars, bridge_vars>>

\* the caller appends a message of its own to the list it holds
CallerAppend ==
    /\ returned # << >>
    /\ Len(dicts) < MaxDicts
    /\ dicts' = Append(dicts, Message("user", CALLER_TEXT))
    /\ returned' = Append(returned, Len(dicts) + 1)
    /\ UNCHANGED <<qa_vars, self_messages, expand_vars, prompt_vars, bridge_vars>>

\* del returned[i]
CallerDelete(i) ==
    /\ i \in DOMAIN returned
    /\ returned' = [k \in 1..(Len(returned) - 1) |->
                       IF k < i THEN returned[k] ELSE returned[k + 1]]
    /\ UNCHANGED <<qa_vars, dicts, self_messages, expand_vars, prompt_vars, bridge_vars>>

\* returned[i]["content"] = CALLER_TEXT: the dict is the one self.messages
\* may hold as well
CallerSetContent(i) ==
    /\ i \in DOMAIN returned
    /\ dicts' = [dicts EXCEPT ![returned[i]].content = CALLER_TEXT]
    /\ conversation_instances' = Showing(dicts')
    /\ UNCHANGED <<MAX_CONVERSATION_HISTORY, pc, call, ncalls, self_messages, returned,
                   expand_vars, prompt_vars, bridge_vars>>

NextCopy ==
    \/ \E role \in {"user", "assistant"} : CopyAddMessage(role)
    \/ GetHistory
    \/ \E query \in {"How are you"} : CreatePromptFromHistory(query)
    \/ CallerAppend
    \/ \E i \in 1..MaxDicts : CallerDelete(i)
    \/ \E i \in 1..MaxDicts : CallerSetContent(i)

SpecCopy == InitCopy /\ [][NextCopy]_vars

(* ---------- properties (the operators below phrase the claims) --------- *)

\* text contains pattern at position i when upper case is read as lower case
MatchesAt(text, pattern, i) ==
    /\ i + Len(pattern) - 1 <= Len(text)
    /\ \A j \in 1..Len(pattern) :
           LowerChar(SubSeq(text, i + j - 1, i + j - 1)) = SubSeq(pattern, j, j)

\* text contains one of the patterns, case-insensitively
Mentions(text, patterns) ==
    \E pattern \in patterns : \E i \in 1..Len(text) : MatchesAt(text, pattern, i)

\* the queries that contain a weather word, a weather word or a greeting
\* phrase, a domain keyword
WeatherQueries == {q \in Queries : Mentions(q, WEATHER_WORDS)}
CannedQueries == {q \in Queries : Mentions(q, WEATHER_WORDS \cup GREETING_PHRASES)}
DomainQueries == {q \in Queries : Mentions(q, IT_KEYWORDS)}

\* the call of thread t has ended in the except clause
Failed(t) == pc[t] = "done" /\ call[t].raised # ""

\* ctx lists exactly the documents at the ranks in S, in rank order
IsRankOrderedSelection(ctx, docs, S) ==
    /\ Len(ctx) = Cardinality(S)
    /\ \A i \in S : ctx[Cardinality({j \in S : j <= i})] = docs[i]

\* the ranks of the search result whose score is at least lo
RanksAtLeast(found, lo) ==
    {i \in 1..Len(found.similarity_scores) : found.similarity_scores[i] >= lo}

\* the ranks of the search result whose score is below hi
RanksBelow(found, hi) ==
    {i \in 1..Len(found.similarity_scores) : found.similarity_scores[i] < hi}

\* C1: a failed get_answer call leaves the history of its conversation as it
\* was before the call.
C1_FailedTurnLeavesHistory ==
    \A t \in Threads :
        Failed(t) => get_history(conv_of(t)) = get_history(call[t].conv0)

\* C2: every Conversation holds at most max_history messages after every
\* add_user_message, add_assistant_message and clear.
C2_HistoryBounded ==
    \A id \in DOMAIN conversation_instances :
        Len(conversation_instances[id].messages) <= conversation_instances[id].max_history

\* C2 witness: appends have exceeded max_history and the history is full.
C2_Witness ==
    \E id \in DOMAIN conversation_instances :
        LET conv == conversation_instances[id]
        IN  /\ Len(conv.appended) > conv.max_history
            /\ Len(conv.messages) = conv.max_history

\* C3: once more than max_history messages were appended to a fresh
\* Conversation, its history is exactly the last max_history appended
\* messages, in append order.
C3_HistoryIsLastAppended ==
    \A id \in DOMAIN conversation_instances :
        LET conv == conversation_instances[id]
            N    == Len(conv.appended)
        IN  N > conv.max_history =>
                /\ Len(get_history(conv)) = conv.max_history
                /\ \A k \in 1..conv.max_history :
                       get_history(conv)[k] = conv.appended[N - conv.max_history + k]

\* C3 witness: two more appends than max_history, of both roles, the dropped
\* messages differing from the kept ones.
C3_Witness ==
    \E id \in DOMAIN conversation_instances :
        LET conv == conversation_instances[id]
        IN  /\ conv.max_history = 2
            /\ Len(conv.appended) = 4
            /\ conv.appended[1].role = "assistant"
            /\ conv.appended[2].role = "user"
            /\ conv.appended[3].role = "user"
            /\ conv.appended[1] # conv.appended[3]
            /\ conv.appended[2] # conv.appended[4]
            /\ get_history(conv) = <<conv.appended[3], conv.appended[4]>>

\* C4: whenever no call is in progress, every user message in every history
\* is immediately followed by an assistant message.
C4_TurnsArePaired ==
    NoCallInProgress =>
        \A id \in DOMAIN conversation_instances :
            LET h == get_history(conversation_instances[id])
            IN  \A i \in 1..Len(h) :
                    h[i].role = "user" => (i < Len(h) /\ h[i + 1].role = "assistant")

\* the messages the call of thread t has appended to its conversation
AppendedByCall(t) ==
    SubSeq(conv_of(t).appended, Len(call[t].conv0.appended) + 1, Len(conv_of(t).appended))

\* C5: a call in which the search or the completion raised returns the fixed
\* graceful message and has appended no assistant message.
C5_FailureIsGraceful ==
    \A t \in Threads :
        Failed(t) =>
            /\ call[t].result = ERROR_RESPONSE
            /\ \A i \in 1..Len(AppendedByCall(t)) : AppendedByCall(t)[i].role # "assistant"

\* C5 witness: the completion call raised the rate-limit failure.
C5_Witness ==
    \E t \in Threads :
        /\ Failed(t)
        /\ call[t].raised \in CompletionErrors
        /\ call[t].messages.fn # "none"
        /\ call[t].result = ERROR_RESPONSE

C7_BelowMinimumIsFallback ==
    \A t \in Threads :
        (pc[t] = "complete"
            /\ \A i \in 1..Len(call[t].found.similarity_scores) :
                   call[t].found.similarity_scores[i] < minimum_threshold)
        => /\ call[t].messages.fn = "create_fallback_prompt"
           /\ call[t].messages.documents = << >>

\* C7 witness: the index returned several documents, all below the minimum.
C7_Witness ==
    \E t \in Threads :
        /\ pc[t] = "complete"
        /\ call[t].found.has_results
        /\ Len(call[t].found.relevant_docs) >= 2
        /\ \A i \in 1..Len(call[t].found.similarity_scores) :
               call[t].found.similarity_scores[i] < minimum_threshold
        /\ call[t].messages.fn = "create_fallback_prompt"

\* C8: when a returned document scores at least 0.5, the high-confidence
\* prompt is built and its documents are exactly those scoring at least 0.5,
\* in rank order.
C8_HighDominates ==
    \A t \in Threads :
        (pc[t] = "complete" /\ call[t].found.has_results
            /\ RanksAtLeast(call[t].found, high_threshold) # {})
        => /\ call[t].messages.fn = "create_high_confidence_prompt"
           /\ IsRankOrderedSelection(call[t].messages.documents,
                                     call[t].found.relevant_docs,
                                     RanksAtLeast(call[t].found, high_threshold))

\* C8 witness: a lower-scoring document ranked before the only high one is
\* left out.
C8_Witness ==
    \E t \in Threads :
        /\ pc[t] = "complete"
        /\ call[t].found.has_results
        /\ Len(call[t].found.relevant_docs) = 2
        /\ call[t].found.similarity_scores[1] < high_threshold
        /\ call[t].found.similarity_scores[2] = high_threshold
        /\ call[t].found.relevant_docs[1] # call[t].found.relevant_docs[2]
        /\ call[t].messages.documents = <<call[t].found.relevant_docs[2]>>

C11_CannedMakesNoCalls ==
    \A t \in Threads :
        (pc[t] # "idle" /\ call[t].query \in CannedQueries)
        => /\ pc[t] = "done"
           /\ call[t].calls = << >>
           /\ call[t].raised = ""
           /\ call[t].result =
                  IF call[t].query \in WeatherQueries
                  THEN WEATHER_RESPONSE ELSE GREETING_RESPONSE

\* C11 witness: the greeting, written with a capital, was answered without
\* any external call.
C11_Witness ==
    \E t \in Threads :
        /\ pc[t] = "done"
        /\ call[t].query = "How are you"
        /\ call[t].result = GREETING_RESPONSE
        /\ call[t].calls = << >>

\* C12: when the search returns no documents the fallback prompt is built
\* without documents, and its is_it_related argument is true exactly when
\* the query, read in lower case, contains a domain keyword.
C12_EmptyIndexIsFallback ==
    \A t \in Threads :
        (pc[t] = "complete" /\ ~call[t].found.has_results)
        => /\ call[t].messages.fn = "create_fallback_prompt"
           /\ call[t].messages.documents = << >>
           /\ call[t].messages.is_it_related = (call[t].query \in DomainQueries)

\* C12 witness: an empty result for a domain query asked after an earlier
\* turn.
C12_Witness ==
    \E t \in Threads :
        /\ pc[t] = "complete"
        /\ ~call[t].found.has_results
        /\ call[t].conv0.messages # << >>
        /\ call[t].messages.fn = "create_fallback_prompt"
        /\ call[t].messages.is_it_related
        /\ call[t].messages.conversation_history # << >>

\* the set of the entries of a sequence
Range(seq) == {seq[i] : i \in 1..Len(seq)}

\* every synonym of every token of text that cleans to a key of
\* SYNONYM_MAPPING is itself a whitespace token of text
SynonymsPresent(text) ==
    LET tokens == split(text)
    IN  \A i \in 1..Len(tokens) :
            clean_word(tokens[i]) \in DOMAIN SYNONYM_MAPPING
            => Range(SYNONYM_MAPPING[clean_word(tokens[i])]) \subseteq Range(tokens)

\* C13 as stated: expanding an expanded query returns it unchanged, and the
\* second pass brings in no token that the first pass's result lacks.
C13_ExpansionIdempotent ==
    Len(expand_output) >= 2
    => /\ expand_output[2] = expand_output[1]
       /\ Range(split(expand_output[2])) \subseteq Range(split(expand_output[1]))

\* C13, amended: expanding an expanded query returns it unchanged exactly
\* when every synonym of every mapped token of the expanded query is already
\* one of its whitespace tokens (otherwise the second pass appends the missing
\* synonyms); and any later pass whose input has all those synonyms returns
\* its input unchanged.
C13_IdempotentWhenSynonymsPresent ==
    /\ Len(expand_output) >= 2
       => ((expand_output[2] = expand_output[1]) <=> SynonymsPresent(expand_output[1]))
    /\ \A k \in 2..Len(expand_output) :
           SynonymsPresent(expand_output[k - 1]) => expand_output[k] = expand_output[k - 1]

C13_Witness ==
    /\ expand_input = "email"
    /\ Len(expand_output) = 2
    /\ expand_output[1] = "email mail outlook message inbox"
    /\ expand_output[2] = expand_output[1]

\* the sequence has no entry twice
NoRepeats(seq) == \A i, j \in 1..Len(seq) : seq[i] = seq[j] => i = j

\* the synonyms listed for a word once its punctuation is stripped
KeySynonyms(word) ==
    LET key == clean_word(word)
    IN  IF key \in DOMAIN SYNONYM_MAPPING THEN SYNONYM_MAPPING[key] ELSE << >>

\* the indexes at which item is a word of words
WordPositions(words, item) == {i \in 1..Len(words) : words[i] = item}

\* the pairs <<i, j>> such that item is the j-th synonym of the i-th word
SynonymPositions(words, item) ==
    UNION { {<<i, j>> : j \in {j \in DOMAIN KeySynonyms(words[i]) :
                                  KeySynonyms(words[i])[j] = item}} :
            i \in 1..Len(words) }

\* item a enters the expansion of words before item b: words come first, in
\* the order of their first occurrence, then synonyms by word and by place
\* in the word's synonym list
EntersBefore(words, a, b) ==
    IF WordPositions(words, a) # {}
    THEN \/ WordPositions(words, b) = {}
         \/ \E i \in WordPositions(words, a) : \A j \in WordPositions(words, b) : i < j
    ELSE /\ WordPositions(words, b) = {}
         /\ \E p \in SynonymPositions(words, a) : \A q \in SynonymPositions(words, b) :
                \/ p[1] < q[1]
                \/ p[1] = q[1] /\ p[2] < q[2]

\* the k-th pass returned the items of its input's expansion joined by single
\* spaces: the lower-cased words and the synonyms of the matched words, each
\* item once, in the order in which they first enter
ExpansionStructure(k) ==
    LET words == split(lower(pass_input(k)))
        items == expanded_words(pass_input(k))
    IN  /\ expand_output[k] = join(" ", items)
        /\ NoRepeats(items)
        /\ Range(items) =
               Range(words) \cup UNION {Range(KeySynonyms(words[i])) : i \in 1..Len(words)}
        /\ \A a, b \in 1..Len(items) : a < b => EntersBefore(words, items[a], items[b])

\* C14 as stated: the expanded query is the words, then the synonyms, each
\* kept once at its first position, and no whitespace token of the expanded
\* query occurs twice.
C14_NoTokenTwice ==
    Len(expand_output) = 1
    => /\ ExpansionStructure(1)
       /\ NoRepeats(split(expand_output[1]))

\* C14, amended: the expanded query is the lower-cased words in their order,
\* then the synonyms of the matched words in word order, each item (a word or
\* a whole synonym entry) kept once at its first position; a whitespace token
\* occurs twice in the result only as a word of a synonym entry of several
\* words ("sign in", "log in").
C14_ItemsOnceTokensMayRepeat ==
    Len(expand_output) = 1
    => /\ ExpansionStructure(1)
       /\ LET tokens == split(expand_output[1])
          IN  \A i, j \in 1..Len(tokens) :
                  (i # j /\ tokens[i] = tokens[j])
                  => \E item \in Range(expanded_words(expand_input)) :
                         /\ Len(split(item)) > 1
                         /\ tokens[i] \in Range(split(item))

C14_Witness ==
    /\ expand_input = "Reset change"
    /\ Len(expand_output) = 1
    /\ expand_output[1] = "reset change update modify alter edit fix revise"

\* C15: whatever the function, the returned list is one or two system
\* messages, then the last MAX_CONVERSATION_HISTORY messages of the supplied
\* history in their order (all of it when it is shorter), then one user
\* message whose content is the query as passed; nothing else.
C15_SystemThenWindowThenQuery ==
    prompt_call # NoPrompt
    => LET history == prompt_call.conversation_history
           n == IF Len(history) < MAX_CONVERSATION_HISTORY
                THEN Len(history) ELSE MAX_CONVERSATION_HISTORY
           systems == Len(prompt_messages) - n - 1
       IN  /\ systems \in {1, 2}
           /\ \A i \in 1..systems : prompt_messages[i].role = "system"
           /\ \A i \in 1..n :
                  prompt_messages[systems + i] = history[Len(history) - n + i]
           /\ prompt_messages[Len(prompt_messages)] = Message("user", prompt_call.query)
           /\ \A i \in (systems + 1)..Len(prompt_messages) :
                  prompt_messages[i].role # "system"

C15_Witness ==
    /\ prompt_call.fn = "create_fallback_prompt"
    /\ prompt_call.is_it_related
    /\ Len(prompt_call.conversation_history) > MAX_CONVERSATION_HISTORY
    /\ prompt_call.conversation_history[1] # prompt_call.conversation_history[2]
    /\ Len(prompt_messages) = 2 + MAX_CONVERSATION_HISTORY + 1
    /\ prompt_messages[3] =
           prompt_call.conversation_history[Len(prompt_call.conversation_history)
                                                - MAX_CONVERSATION_HISTORY + 1]

\* the log of appends is user, assistant, user, assistant, ...
Alternating(appended) ==
    \A i \in 1..Len(appended) :
        appended[i].role = IF i % 2 = 1 THEN "user" ELSE "assistant"

\* C16 as stated: in a conversation built from alternating user/assistant
\* appends the stored history never begins with an assistant message (whose
\* user message trimming has dropped).
C16_HistoryStartsWithUser ==
    \A id \in DOMAIN conversation_instances :
        LET conv == conversation_instances[id]
        IN  (Alternating(conv.appended) /\ conv.messages # << >>)
            => conv.messages[1].role = "user"

\* C16, amended: trimming drops single messages from the oldest end.  In a
\* conversation built from alternating appends the stored history begins
\* with an assistant message, its user message dropped, exactly when the
\* number of messages dropped so far (appends minus max_history) is odd.
C16_OddExcessSplitsExchange ==
    \A id \in DOMAIN conversation_instances :
        LET conv == conversation_instances[id]
            dropped == Len(conv.appended) - conv.max_history
        IN  (Alternating(conv.appended) /\ conv.messages # << >>)
            => /\ conv.messages[1].role = "assistant" <=> (dropped > 0 /\ dropped % 2 = 1)
               /\ dropped > 0 =>
                      conv.messages = SubSeq(conv.appended, dropped + 1, Len(conv.appended))

C16_Witness ==
    \E id \in DOMAIN conversation_instances :
        LET conv == conversation_instances[id]
        IN  /\ Alternating(conv.appended)
            /\ Len(conv.appended) = 3
            /\ conv.max_history = 2
            /\ conv.messages = SubSeq(conv.appended, 2, 3)
            /\ conv.messages[1].role = "assistant"

\* the Conversation after the turn of worker t (its user message, then its
\* assistant message) is run on conv with nothing in between
Turn(conv, t) ==
    add_assistant_message(add_user_message(conv, call[t].query), call[t].result)

\* C17: when two get_answer calls on one id have both answered, and nothing
\* but their four appends has happened to the conversation since the first
\* of them found it, the history is the one that running the two turns one
\* after the other, in one order or the other, produces.
C17_SameIdTurnsSerialized ==
    \A t1, t2 \in Workers :
        LET id == call[t1].conversation_id
            before == call[t1].conv0
        IN  ( /\ t1 # t2
              /\ pc[t1] = "done" /\ call[t1].raised = ""
              /\ pc[t2] = "done" /\ call[t2].raised = ""
              /\ call[t2].conversation_id = id
              /\ Len(before.appended) <= Len(call[t2].conv0.appended)
              /\ Len(conversation_instances[id].appended) = Len(before.appended) + 4 )
            => conversation_instances[id].messages
                   \in { Turn(Turn(before, t1), t2).messages,
                         Turn(Turn(before, t2), t1).messages }

\* the id a step of worker t acts on
ActedOn(t) ==
    IF pc[t] = "idle" THEN call'[t].conversation_id ELSE call[t].conversation_id

\* every stored Conversation but that of id A is the same after the step
OthersUnchanged(A) ==
    \A B \in DOMAIN conversation_instances \ {A} :
        /\ B \in DOMAIN conversation_instances'
        /\ conversation_instances'[B] = conversation_instances[B]

\* C18: a step of a get_answer call on id A (its start, which may create A,
\* its success or its failure) leaves the Conversation of every other id as
\* it was, whatever the other worker is doing; a reset_conversation changes
\* or creates one id only; no id ever leaves the store.
C18_OtherIdsUntouched ==
    [][ /\ \A t \in Workers : pc'[t] # pc[t] => OthersUnchanged(ActedOn(t))
        /\ pc' = pc => \E A \in ConvIds : OthersUnchanged(A)
        /\ DOMAIN conversation_instances \subseteq DOMAIN conversation_instances' ]_vars

C18_Witness ==
    /\ pc["w1"] = "complete" /\ call["w1"].conversation_id = "default"
    /\ pc["w2"] = "done" /\ call["w2"].conversation_id = "chat1"
    /\ call["w2"].raised # ""
    /\ conversation_instances["default"].messages = <<Message("user", call["w1"].query)>>
    /\ conversation_instances["chat1"].messages = <<Message("user", call["w2"].query)>>

\* C20: a step that changes the store while no get_answer call moves is a
\* reset_conversation(id): after it id is in the store with an empty history
\* and the max_history it had (the configured one when id was unseen), and
\* every other id is as before.  A get_answer call that finds the history
\* of its id empty, as a reset leaves it, stores its own turn and nothing
\* older.
C20_ResetLeavesEmptyConversation ==
    [][ /\ (pc' = pc /\ conversation_instances' # conversation_instances)
           => \E id \in ConvIds :
                  /\ DOMAIN conversation_instances' = DOMAIN conversation_instances \cup {id}
                  /\ conversation_instances'[id].messages = << >>
                  /\ conversation_instances'[id].max_history =
                         IF id \in DOMAIN conversation_instances
                         THEN conversation_instances[id].max_history
                         ELSE MAX_CONVERSATION_HISTORY
                  /\ \A other \in DOMAIN conversation_instances \ {id} :
                         conversation_instances'[other] = conversation_instances[other]
        /\ \A t \in Threads :
               (pc[t] = "idle" /\ pc'[t] # "idle")
               => LET id == call'[t].conversation_id
                  IN  (id \in DOMAIN conversation_instances
                       /\ conversation_instances[id].messages = << >>)
                      => /\ call'[t].conv0.messages = << >>
                         /\ conversation_instances'[id].appended[1]
                                = Message("user", call'[t].query)
                         /\ Len(conversation_instances'[id].appended) <= 2 ]_vars

\* only "default" has ever been used, two calls have been made on it, and
\* the second found the history empty: it was reset after the first
C20_Witness ==
    /\ DOMAIN conversation_instances = {"default"}
    /\ ncalls = 2
    /\ pc["main"] = "done"
    /\ call["main"].conversation_id = "default"
    /\ call["main"].conv0.messages = << >>
    /\ call["main"].conv0.appended = << >>
    /\ conversation_instances["default"].appended[1] = Message("user", call["main"].query)

\* C19: after ChatBridge.resetConversation the record of the active
\* conversation has the title, pinned flag and pinOrder it had and an empty
\* message list; every other record, the set of records, the active id and
\* the pinned list are unchanged.
C19_ResetKeepsMetadata ==
    [][ last_slot' = "resetConversation"
        => /\ DOMAIN conversations' = DOMAIN conversations
           /\ active_conversation_id' = active_conversation_id
           /\ pinned_conversations' = pinned_conversations
           /\ \A id \in DOMAIN conversations :
                  IF id = active_conversation_id
                  THEN /\ conversations'[id].title = conversations[id].title
                       /\ conversations'[id].pinned = conversations[id].pinned
                       /\ conversations'[id].pinOrder = conversations[id].pinOrder
                       /\ conversations'[id].messages = << >>
                  ELSE conversations'[id] = conversations[id] ]_vars

\* a renamed, pinned conversation has been reset after a message was sent,
\* and the other conversation still holds its thread
C19_Witness ==
    /\ last_slot = "resetConversation"
    /\ ncalls = 1
    /\ active_conversation_id = "default"
    /\ "default" \in DOMAIN conversations
    /\ conversations["default"] = Entry("VPN help", << >>, TRUE, 0)
    /\ conversation_instances["default"].messages = << >>
    /\ "chat1" \notin DOMAIN conversation_instances

\* C21: whatever a caller does to a list returned by get_history() or by a
\* prompt function, or to a message reached through it, the history stored
\* in the Conversation is what its own appends made it: the last max_history
\* appended messages, content, order and length.
C21_HistoryIsolatedFromCallers ==
    LET conv == conversation_instances["default"]
        n    == IF Len(conv.appended) < conv.max_history
                THEN Len(conv.appended) ELSE conv.max_history
    IN  get_history(conv) = SubSeq(conv.appended, Len(conv.appended) - n + 1, Len(conv.appended))

\* C22: when the client raises a connection error create_chat_completion
\* raises the connection message, when it raises a rate-limit error the
\* overloaded message, and for any other error a message that is neither.
C22_CompletionErrorsTyped ==
    \A t \in Threads :
        (Failed(t) /\ call[t].context # "")
        => /\ call[t].context = "APIConnectionError" => call[t].raised = CONNECTION_MESSAGE
           /\ call[t].context = "RateLimitError" => call[t].raised = OVERLOADED_MESSAGE
           /\ call[t].context \notin {"APIConnectionError", "RateLimitError"}
                  => call[t].raised \notin {CONNECTION_MESSAGE, OVERLOADED_MESSAGE}

\* the number of entries of the log that are the call name
Count(calls, name) == Cardinality({i \in 1..Len(calls) : calls[i] = name})

C24_NoSubThresholdContext ==
    \A t \in Threads :
        pc[t] = "complete"
        => \A i \in RanksBelow(call[t].found, minimum_threshold) :
               call[t].found.relevant_docs[i] \notin Range(call[t].messages.documents)

\* the message is a system message that carries a context block
IsContextBlock(m) ==
    /\ m.role = "system"
    /\ Len(m.content) >= 9
    /\ SubSeq(m.content, 1, 9) = "CONTEXT:\n"

\* the instruction template each document prompt starts with
TemplateOf ==
    [fn \in PromptFunctions |->
        IF fn = "create_high_confidence_prompt" THEN HIGH_CONFIDENCE_PROMPT
        ELSE IF fn = "create_medium_confidence_prompt" THEN MEDIUM_CONFIDENCE_PROMPT
        ELSE IF fn = "create_low_confidence_prompt" THEN LOW_CONFIDENCE_PROMPT
        ELSE FALLBACK_SYSTEM_PROMPT]

\* C25: the list create_fallback_prompt returns has no context block: it is
\* the fallback template, then one more system message (the IT-related note)
\* exactly when is_it_related is true, then the history window, then the
\* query.  The list of each other function has exactly two system messages:
\* its instruction template, then the context block.
C25_FallbackHasNoContext ==
    prompt_call # NoPrompt
    => LET systems == SelectSeq(prompt_messages, LAMBDA m : m.role = "system")
           history == prompt_call.conversation_history
           n == IF Len(history) < MAX_CONVERSATION_HISTORY
                THEN Len(history) ELSE MAX_CONVERSATION_HISTORY
       IN  /\ prompt_messages[1] = Message("system", TemplateOf[prompt_call.fn])
           /\ SubSeq(prompt_messages, 1, Len(systems)) = systems
           /\ IF prompt_call.fn = "create_fallback_prompt"
              THEN /\ \A i \in 1..Len(prompt_messages) : ~IsContextBlock(prompt_messages[i])
                   /\ Len(systems) = IF prompt_call.is_it_related THEN 2 ELSE 1
                   /\ prompt_call.is_it_related
                          => prompt_messages[2] = Message("system", IT_RELATED_NOTE)
                   /\ SubSeq(prompt_messages, Len(systems) + 1, Len(prompt_messages))
                          = SubSeq(history, Len(history) - n + 1, Len(history))
                                \o << Message("user", prompt_call.query) >>
              ELSE /\ Len(systems) = 2
                   /\ IsContextBlock(prompt_messages[2])

\* C25 witness: a fallback prompt for a query that is not IT-related, built
\* over a history longer than the window: one system message, the window,
\* the query.
C25_Witness ==
    /\ prompt_call.fn = "create_fallback_prompt"
    /\ ~prompt_call.is_it_related
    /\ Len(prompt_call.conversation_history) > MAX_CONVERSATION_HISTORY
    /\ Len(prompt_messages) = 1 + MAX_CONVERSATION_HISTORY + 1
    /\ prompt_messages[2].role # "system"
    /\ prompt_messages[Len(prompt_messages)] = Message("user", prompt_call.query)

\* the text of a context message between "CONTEXT:\n" and the last blank
\* line, the one before the closing instruction
ContextOf(content) ==
    LET blank == {i \in 1..(Len(content) - 1) : SubSeq(content, i, i + 1) = "\n\n"}
        last  == CHOOSE i \in blank : \A j \in blank : j <= i
    IN  SubSeq(content, 10, last - 1)

\* the document text from its first to its last character that is not white
\* space
Stripped(document) ==
    LET inner == {i \in 1..Len(document) : SubSeq(document, i, i) \notin Whitespace}
    IN  IF inner = {}
        THEN ""
        ELSE SubSeq(document, CHOOSE a \in inner : \A i \in inner : a <= i,
                              CHOOSE b \in inner : \A i \in inner : i <= b)

\* the entry of the i-th document
DocumentEntry(documents, i) ==
    "DOCUMENT " \o ToString(i) \o ":\n" \o Stripped(documents[i])

\* where the entry of the i-th document starts in the block
RECURSIVE EntryStart(_, _)
EntryStart(documents, i) ==
    IF i = 1
    THEN 1
    ELSE EntryStart(documents, i - 1) + Len(DocumentEntry(documents, i - 1)) + 2

\* block is one entry per document, in the order of the list, numbered from
\* 1, with a blank line between two entries and nothing else
ListsDocuments(block, documents) ==
    LET n == Len(documents)
    IN  /\ n > 0
        /\ Len(block) = EntryStart(documents, n) + Len(DocumentEntry(documents, n)) - 1
        /\ \A i \in 1..n :
               LET from == EntryStart(documents, i)
                   to   == from + Len(DocumentEntry(documents, i)) - 1
               IN  /\ SubSeq(block, from, to) = DocumentEntry(documents, i)
                   /\ i < n => SubSeq(block, to + 1, to + 2) = "\n\n"

\* C26 as stated: the context block of a document prompt is the fixed
\* sentence when the document list is empty, and for every non-empty list
\* the numbered entries, never the sentence.
C26_NonEmptyListIsListed ==
    (prompt_call # NoPrompt /\ prompt_call.fn # "create_fallback_prompt")
    => LET block == ContextOf(prompt_messages[2].content)
       IN  IF prompt_call.documents = << >>
           THEN block = NO_DOCUMENTATION
           ELSE /\ ListsDocuments(block, prompt_call.documents)
                /\ block # NO_DOCUMENTATION

\* C26, amended: the context block is the fixed sentence when the document
\* list is empty or is the one-element list ["No relevant configs found."]
\* that search_configs returns for an empty result; for every other list it
\* is the entries "DOCUMENT <n>:" with the stripped text on the next line,
\* one per document, in list order, numbered from 1, separated by blank
\* lines.
C26_ListedUnlessEmptyOrPlaceholder ==
    (prompt_call # NoPrompt /\ prompt_call.fn # "create_fallback_prompt")
    => LET block == ContextOf(prompt_messages[2].content)
       IN  IF prompt_call.documents \in {<< >>, <<NO_RESULTS_DOC>>}
           THEN block = NO_DOCUMENTATION
           ELSE ListsDocuments(block, prompt_call.documents)

\* C26 witness: two documents, the first with white space around its text.
C26_Witness ==
    /\ prompt_call.fn = "create_medium_confidence_prompt"
    /\ Len(prompt_call.documents) = 2
    /\ prompt_call.documents[1] = "  Mailbox permissions guide\n"
    /\ ContextOf(prompt_messages[2].content) =
           "DOCUMENT 1:\nMailbox permissions guide\n\nDOCUMENT 2:\nPassword reset guide"

\* the message list the call of thread t hands to create_chat_completion
Sent(t) == create_prompt(call[t].messages, MAX_CONVERSATION_HISTORY)

\* the messages of Sent(t) between the system messages and the final message
HistorySegment(t) ==
    SubSeq(Sent(t), Len(system_messages(call[t].messages)) + 1, Len(Sent(t)) - 1)

\* C27: the message list get_answer sends ends with the query as a user
\* message, and the history segment before it holds messages of earlier
\* turns only: it is a trailing part of the history the call found, so the
\* query of the current turn is sent once.
C27_QuerySentOnce ==
    \A t \in Threads :
        pc[t] = "complete"
        => LET before == get_history(call[t].conv0)
           IN  /\ Sent(t)[Len(Sent(t))] = Message("user", call[t].query)
               /\ \E k \in 1..(Len(before) + 1) :
                      HistorySegment(t) = SubSeq(before, k, Len(before))

\* the list holds the fixed error text as an assistant message
RecordsError(messages) ==
    \E i \in 1..Len(messages) : messages[i] = Message("assistant", ERROR_RESPONSE)

\* C28: after any sequence of sendMessage calls neither a Conversation's
\* history nor a persisted thread of ChatBridge.conversations holds the fixed
\* error text as an assistant message.
C28_ErrorTextNeverRecorded ==
    /\ \A id \in DOMAIN conversation_instances :
           ~RecordsError(get_history(conversation_instances[id]))
    /\ \A id \in DOMAIN conversations : ~RecordsError(conversations[id].messages)

\* the ids of the pinned list, in list order
PinnedIds == [i \in 1..Len(pinned_conversations) |-> pinned_conversations[i].id]

\* C29: the pinned list holds each id at most once, holds exactly the ids of
\* the records whose pinned flag is true, the pinOrder of the record at place
\* i of the list (counted from 0) is i, as is the order kept in the list, and
\* every record that is not pinned has pinOrder -1.
C29_PinnedListConsistent ==
    /\ NoRepeats(PinnedIds)
    /\ Range(PinnedIds) = {id \in DOMAIN conversations : conversations[id].pinned}
    /\ \A i \in 1..Len(PinnedIds) :
           /\ conversations[PinnedIds[i]].pinOrder = i - 1
           /\ pinned_conversations[i].order = i - 1
    /\ \A id \in DOMAIN conversations :
           ~conversations[id].pinned => conversations[id].pinOrder = -1

\* C30: switchConversation and createNewConversation leave the history of
\* every conversation that already exists (a record of ChatBridge with a
\* Conversation in qa_tool) as it was; only a reset clears a history.
C30_SwitchKeepsHistory ==
    [][ last_slot' \in {"switchConversation", "createNewConversation"}
        => \A id \in DOMAIN conversations \cap DOMAIN conversation_instances :
               /\ id \in DOMAIN conversation_instances'
               /\ get_history(conversation_instances'[id])
                      = get_history(conversation_instances[id]) ]_vars

====
